---- MODULE Spec2Model ----
(***************************************************************************)
(* chest.core.Chest: a dictionary that spills its values to a directory    *)
(* when the in-memory footprint reaches available_memory.                  *)
(*                                                                         *)
(* One Chest object lives at a time on one backing directory.  The state   *)
(* of the object is inmem, _keys, available_memory,                        *)
(* _explicitly_given_path and _key_to_filename; the state of the directory *)
(* is direxists, files (one file per key file name) and keyfile (the       *)
(* '.keys' manifest).  The remaining variables record the run, so that    *)
(* properties of calls can be stated on states.  A run is recorded in one  *)
(* of three ways, fixed by observe: "calls" keeps the last call (last) and *)
(* the plain dict given the same calls (plain); "writes" keeps the value   *)
(* last given to every key of the directory (written); "raises" keeps the  *)
(* last call that a raising move_to_disk ended (last).  The record never   *)
(* influences the Chest or the directory.                                  *)
(***************************************************************************)
EXTENDS Integers, FiniteSets, Sequences, TLC

VARIABLES
    inmem,                  \* self.inmem: key -> value
    _keys,                  \* self._keys: set of keys
    available_memory,       \* self.available_memory
    _explicitly_given_path, \* self._explicitly_given_path
    _key_to_filename,       \* self._key_to_filename: key -> file name
    alive,                  \* a Chest object exists
    direxists,              \* os.path.exists(self.path)
    files,                  \* value files of the directory: file name -> value
    keyfile,                \* the '.keys' file: [exists, keys]
    observe,                \* which record of the run is kept: "calls", "writes" or "raises"
    last,                   \* ("calls") the last call: arguments, result, pre-state facts
    plain,                  \* ("calls") a plain dict given the same seed and calls
    written,                \* ("writes") the value last given (written or seeded) to each key
    reload                  \* progress of a flush / discard / re-open sequence

vars == <<inmem, _keys, available_memory, _explicitly_given_path,
          _key_to_filename, alive, direxists, files, keyfile,
          observe, last, plain, written, reload>>

-----------------------------------------------------------------------------
(* Bounds of the model *)

\* largest nbytes of a value
MaxSize == 2
\* largest available_memory a Chest is constructed with
MaxBudget == 2
\* largest number of entries of the data argument
MaxSeed == 1

-----------------------------------------------------------------------------
(* Keys, values, file names *)

\* a str key
StrKey(s) == [isstr |-> TRUE, s |-> s, n |-> 0]
\* an int key
IntKey(n) == [isstr |-> FALSE, s |-> "", n |-> n]

\* the keys the caller uses: two integers whose default file names are equal
Keys == {IntKey(2), IntKey(-2)}
NoKey == StrKey("")

\* values are objects with an nbytes attribute: one value "x" of every size
\* and a second value "y" of size 1, so that distinct values of equal size exist
Tags == {"x", "y"}
Values == { v \in [tag : Tags, nbytes : 1..MaxSize] : v.tag = "x" \/ v.nbytes = 1 }
NoValue == [tag |-> "none", nbytes |-> 0]

\* strings a caller can use as keys
Strings == {"a", "_keys", ".keys", "keys.", ""}

\* the strings of Strings that match '^[_a-zA-Z]\w*$'
Identifiers == {"a", "_keys"}

\* abs() of an integer
abs(i) == IF i < 0 THEN -i ELSE i

\* hash() of an int key: the integer itself, except hash(-1) == -2
hash(key) == IF key.n = -1 THEN -2 ELSE key.n

\* the module-level key_to_filename: the default key -> file name function
key_to_filename(key) ==
    IF key.isstr /\ key.s \in Identifiers
    THEN key.s
    ELSE ToString(abs(hash(key)))

\* hash() of a str: any integer, chosen anew by every interpreter
StrHashes == -2..2

\* the file names the module-level key_to_filename can give key
default_filenames(key) ==
    IF key.isstr /\ key.s \notin Identifiers
    THEN { ToString(abs(h)) : h \in StrHashes }
    ELSE { key_to_filename(key) }

\* the name of the manifest inside self.path
KeysFile == ".keys"

\* a caller-supplied key_to_filename that keeps the sign of integers
signed_filename(key) == IF key.isstr THEN key.s ELSE ToString(key.n)

\* the key_to_filename arguments a Chest is constructed with
KeyToFilenameArgs ==
    { [k \in Keys |-> key_to_filename(k)], [k \in Keys |-> signed_filename(k)] }

\* DEFAULT_AVAILABLE_MEMORY = 1e9
DEFAULT_AVAILABLE_MEMORY == 1000000000

\* the available_memory arguments: an integer, or None (not given)
AvailableMemoryArgs ==
    [given : {TRUE}, n : 0..MaxBudget] \cup {[given |-> FALSE, n |-> 0]}

\* nbytes(o): o.nbytes
nbytes(o) == o.nbytes

-----------------------------------------------------------------------------
(* dict and set helpers *)

EmptyDict == [k \in {} |-> NoValue]

\* d[k] = v
DictSet(d, k, v) == [x \in DOMAIN d \cup {k} |-> IF x = k THEN v ELSE d[x]]

\* del d[k]
DictDel(d, k) == [x \in DOMAIN d \ {k} |-> d[x]]

\* the orders in which the elements of S can be listed
Perms(S) ==
    { s \in [1..Cardinality(S) -> S] :
        \A i, j \in 1..Cardinality(S) : i # j => s[i] # s[j] }

\* the data arguments: dicts of at most MaxSeed entries
Seeds ==
    UNION { [S -> Values] : S \in { T \in SUBSET Keys : Cardinality(T) <= MaxSeed } }

NoKeyfile == [exists |-> FALSE, keys |-> {}]

\* results of a call
Ok(v) == [kind |-> "ok", val |-> v]
KeyError == [kind |-> "KeyError", val |-> NoValue]
IOError == [kind |-> "IOError", val |-> NoValue]
EOFError == [kind |-> "EOFError", val |-> NoValue]

\* the content of a file that open(fn, 'w') truncated and dump did not complete
Truncated == [tag |-> "truncated", nbytes |-> 0]

-----------------------------------------------------------------------------
(* Chest methods, as functions of the object and directory state *)

\* Chest.key_to_filename: the file of key inside self.path
Chest_key_to_filename(key) == _key_to_filename[key]

\* move_to_disk without the dump: the value is dropped from memory, no file written
move_to_disk_nowrite(st, key) ==
    [ inmem |-> DictDel(st.inmem, key), files |-> st.files ]

\* move_to_disk without the del: the value is written and stays in memory
move_to_disk_keep(st, key) ==
    [ inmem |-> st.inmem,
      files |-> DictSet(st.files, Chest_key_to_filename(key), st.inmem[key]) ]

\* move_to_disk that keeps a file that is already there
move_to_disk_noclobber(st, key) ==
    [ inmem |-> DictDel(st.inmem, key),
      files |-> IF Chest_key_to_filename(key) \in DOMAIN st.files
                THEN st.files
                ELSE DictSet(st.files, Chest_key_to_filename(key), st.inmem[key]) ]

\* Chest.move_to_disk on st = [inmem, files]
move_to_disk(st, key) ==
    [ inmem |-> DictDel(st.inmem, key),
      files |-> DictSet(st.files, Chest_key_to_filename(key), st.inmem[key]) ]

\* move_to_disk with the del before the dump: when the dump raises, the value
\* is in neither place
move_to_disk_raises_lost(st, key) ==
    { [ inmem |-> DictDel(st.inmem, key),
        files |-> DictSet(st.files, Chest_key_to_filename(key), Truncated) ] }

\* Chest.move_to_disk raising: open() raises and nothing changed, or dump
\* raises and leaves the file truncated; the del is not reached
move_to_disk_raises(st, key) ==
    { st, [st EXCEPT !.files = DictSet(st.files, Chest_key_to_filename(key), Truncated)] }

\* Chest.get_from_disk on st = [inmem, files]; the file exists
get_from_disk(st, key) ==
    IF key \in DOMAIN st.inmem
    THEN st
    ELSE [ inmem |-> DictSet(st.inmem, key, st.files[Chest_key_to_filename(key)]),
           files |-> st.files ]

RECURSIVE SumBytes(_, _)
SumBytes(d, S) ==
    IF S = {} THEN 0
    ELSE LET k == CHOOSE x \in S : TRUE
         IN  nbytes(d[k]) + SumBytes(d, S \ {k})

\* Chest.memory_usage of an inmem dict
memory_usage(d) == SumBytes(d, DOMAIN d)

\* self.inmem.items() left unsorted: the keys in any order
sorted_items_unsorted(d) == Perms(DOMAIN d)

\* sorted(self.inmem.items(), key=nbytes): every ascending order of the keys
\* (the order of equal-sized items follows the dict's iteration order)
sorted_items(d) ==
    { s \in Perms(DOMAIN d) :
        \A i, j \in 1..Len(s) : i < j => nbytes(d[s[i]]) <= nbytes(d[s[j]]) }

\* the while loop of Chest.shrink
RECURSIVE shrink_loop(_, _, _)

\* the while loop testing only `inmem`: it pops whatever the footprint is
shrink_loop_once(st, order, mem) ==
    IF order # <<>>
    THEN LET key == order[Len(order)]
         IN  shrink_loop(move_to_disk(st, key),
                         SubSeq(order, 1, Len(order) - 1),
                         mem - nbytes(st.inmem[key]))
    ELSE st

shrink_loop(st, order, mem) ==
    IF order # <<>> /\ mem > available_memory
    THEN LET key == order[Len(order)]
         IN  shrink_loop(move_to_disk(st, key),
                         SubSeq(order, 1, Len(order) - 1),
                         mem - nbytes(st.inmem[key]))
    ELSE st

\* the keys the while loop of Chest.shrink pops, in the order it pops them
RECURSIVE shrink_pops(_, _, _)
shrink_pops(d, order, mem) ==
    IF order # <<>> /\ mem > available_memory
    THEN LET key == order[Len(order)]
         IN  <<key>> \o shrink_pops(d, SubSeq(order, 1, Len(order) - 1),
                                    mem - nbytes(d[key]))
    ELSE <<>>

\* Chest.shrink on st = [inmem, files]: the states it can end in
shrink(st) ==
    LET mem == memory_usage(st.inmem)
    IN  IF mem < available_memory
        THEN {st}
        ELSE { shrink_loop(st, order, mem) : order \in sorted_items(st.inmem) }

\* the while loop of Chest.shrink when one of its move_to_disk calls raises:
\* the states the exception leaves, with the key and the value being moved
RECURSIVE shrink_loop_raises(_, _, _)
shrink_loop_raises(st, order, mem) ==
    IF order # <<>> /\ mem > available_memory
    THEN LET key == order[Len(order)]
         IN  { [st |-> s, key |-> key, value |-> st.inmem[key]] :
                   s \in move_to_disk_raises(st, key) }
             \cup shrink_loop_raises(move_to_disk(st, key),
                                     SubSeq(order, 1, Len(order) - 1),
                                     mem - nbytes(st.inmem[key]))
    ELSE {}

\* Chest.shrink on st = [inmem, files] when a move_to_disk raises
shrink_raises(st) ==
    LET mem == memory_usage(st.inmem)
    IN  IF mem < available_memory
        THEN {}
        ELSE UNION { shrink_loop_raises(st, order, mem) : order \in sorted_items(st.inmem) }

\* what Chest.__getitem__(key) returns or raises
getitem_result(key) ==
    IF key \in DOMAIN inmem THEN Ok(inmem[key])
    ELSE IF key \notin _keys THEN KeyError
    ELSE IF Chest_key_to_filename(key) \notin DOMAIN files THEN IOError
    ELSE IF files[Chest_key_to_filename(key)] = Truncated THEN EOFError
    ELSE Ok(files[Chest_key_to_filename(key)])

\* __delitem__ without the os.remove: the file of key is left behind
delitem_keepfile(st, key) ==
    [ inmem |-> DictDel(st.inmem, key), files |-> st.files ]

\* Chest.__delitem__ up to the _keys.remove: on st = [inmem, files]
delitem_body(st, key) ==
    [ inmem |-> DictDel(st.inmem, key),
      files |-> DictDel(st.files, Chest_key_to_filename(key)) ]

\* Chest.__contains__
Contains(key) == key \in _keys

\* Chest.__len__
Length == Cardinality(_keys)

\* Chest.__iter__, as a set
Iter == _keys

-----------------------------------------------------------------------------
(* The record of the last call *)

\* the file of key before the call, or NoValue
FileOf(key) ==
    IF Chest_key_to_filename(key) \in DOMAIN files
    THEN files[Chest_key_to_filename(key)]
    ELSE NoValue

NoCall ==
    [ op |-> "init", key |-> NoKey, value |-> NoValue, ret |-> Ok(NoValue),
      ref |-> Ok(NoValue), haskey |-> FALSE, oldfile |-> NoValue, after |-> NoValue ]

Call(op, key, value, ret, ref) ==
    IF observe # "calls" THEN NoCall ELSE
    [ op |-> op, key |-> key, value |-> value, ret |-> ret, ref |-> ref,
      \* facts of the state the call started in
      haskey |-> key \in _keys,
      oldfile |-> IF key \in Keys THEN FileOf(key) ELSE NoValue,
      \* the value written by the call just before, when it was a write of key
      after |-> IF op = "getitem" /\ last.op = "setitem" /\ last.key = key
                THEN last.value ELSE NoValue ]

\* the record of a call that a raising move_to_disk(key) ended; keys is _keys
\* when move_to_disk was called
Raised(op, key, value, keys) ==
    [ op |-> op, key |-> key, value |-> value, ret |-> IOError, ref |-> Ok(NoValue),
      haskey |-> key \in keys, oldfile |-> NoValue, after |-> NoValue ]

-----------------------------------------------------------------------------
(* Actions *)

\* Chest.__init__(data, path, available_memory, key_to_filename)
Construct(data, path_given, memory_arg, k2f) ==
    LET reuse == path_given /\ direxists
    IN  /\ inmem' = data
        /\ _explicitly_given_path' = path_given
        /\ available_memory' = IF memory_arg.given THEN memory_arg.n
                                ELSE DEFAULT_AVAILABLE_MEMORY
        /\ _key_to_filename' = k2f
        /\ direxists' = TRUE
        /\ files' = IF reuse THEN files ELSE [n \in {} |-> NoValue]
        /\ keyfile' = IF reuse THEN keyfile ELSE NoKeyfile
        /\ _keys' = IF reuse /\ keyfile.exists THEN keyfile.keys ELSE {}
        /\ alive' = TRUE
        /\ plain' = IF observe = "calls" THEN data ELSE EmptyDict
        /\ written' = IF observe # "writes" THEN EmptyDict
                      ELSE LET old == IF reuse THEN written ELSE EmptyDict
                           IN  [k \in DOMAIN old \cup DOMAIN data |->
                                   IF k \in DOMAIN data THEN data[k] ELSE old[k]]
        /\ observe' = observe

InitObserving(obs) ==
    /\ observe = obs
    /\ \E data \in Seeds, path_given \in BOOLEAN, memory_arg \in AvailableMemoryArgs,
          k2f \in KeyToFilenameArgs :
          /\ inmem = data
          /\ _explicitly_given_path = path_given
          /\ available_memory = IF memory_arg.given THEN memory_arg.n
                                ELSE DEFAULT_AVAILABLE_MEMORY
          /\ _key_to_filename = k2f
          /\ plain = IF observe = "calls" THEN data ELSE EmptyDict
    /\ _keys = {}
    /\ alive = TRUE
    /\ direxists = TRUE
    /\ files = [n \in {} |-> NoValue]
    /\ keyfile = NoKeyfile
    /\ written = IF observe = "writes" THEN inmem ELSE EmptyDict
    /\ reload = [stage |-> "none", keys |-> {}]
    /\ last = NoCall

\* the run as a sequence of calls, each compared with a plain dict
Init == InitObserving("calls")

\* the run with move_to_disk calls that raise
InitRaises == InitObserving("raises")

\* the run as the history of the values written to the directory
InitWrites == InitObserving("writes")

\* a new Chest on the directory of the discarded one (path given) or on a
\* fresh temporary directory (path omitted)
Reopen ==
    /\ ~alive
    /\ \E data \in Seeds, path_given \in BOOLEAN, memory_arg \in AvailableMemoryArgs :
          /\ Construct(data, path_given, memory_arg, _key_to_filename)
          /\ reload' = IF reload.stage = "discarded" /\ path_given /\ data = EmptyDict
                       THEN [reload EXCEPT !.stage = "reloaded"]
                       ELSE [stage |-> "none", keys |-> {}]
    /\ last' = Call("init", NoKey, NoValue, Ok(NoValue), Ok(NoValue))

\* Chest.__setitem__(key, value)
SetItem ==
    /\ alive
    /\ \E key \in Keys, value \in Values :
          LET st0 == [inmem |-> inmem, files |-> files]
              st1 == IF key \in _keys THEN delitem_body(st0, key) ELSE st0
              st2 == [st1 EXCEPT !.inmem = DictSet(st1.inmem, key, value)]
          IN  /\ \E st3 \in shrink(st2) :
                    /\ inmem' = st3.inmem
                    /\ files' = st3.files
              /\ _keys' = _keys \cup {key}
              /\ plain' = IF observe = "calls" THEN DictSet(plain, key, value) ELSE plain
              /\ written' = IF observe = "writes" THEN DictSet(written, key, value) ELSE written
              /\ last' = Call("setitem", key, value, Ok(NoValue), Ok(NoValue))
    /\ reload' = [stage |-> "none", keys |-> {}]
    /\ UNCHANGED <<available_memory, _explicitly_given_path, _key_to_filename,
                   alive, direxists, keyfile, observe>>

\* __getitem__ without the early return of self.inmem[key]: every read that
\* succeeds goes through get_from_disk and shrink
GetItem_always_shrinks ==
    /\ alive
    /\ \E key \in Keys :
          LET ret == getitem_result(key)
              st0 == [inmem |-> inmem, files |-> files]
          IN  /\ IF ret.kind # "ok"
                 THEN UNCHANGED <<inmem, files>>
                 ELSE \E st2 \in shrink(get_from_disk(st0, key)) :
                         /\ inmem' = st2.inmem
                         /\ files' = st2.files
              /\ last' = Call("getitem", key, NoValue, ret,
                              IF key \in DOMAIN plain THEN Ok(plain[key]) ELSE KeyError)
    /\ reload' = [stage |-> "none", keys |-> {}]
    /\ UNCHANGED <<_keys, available_memory, _explicitly_given_path,
                   _key_to_filename, alive, direxists, keyfile, plain, written, observe>>

\* Chest.__getitem__(key)
GetItem ==
    /\ alive
    /\ \E key \in Keys :
          LET ret == getitem_result(key)
              st0 == [inmem |-> inmem, files |-> files]
          IN  /\ IF key \in DOMAIN inmem \/ ret.kind # "ok"
                 THEN UNCHANGED <<inmem, files>>
                 ELSE \E st2 \in shrink(get_from_disk(st0, key)) :
                         /\ inmem' = st2.inmem
                         /\ files' = st2.files
              /\ last' = Call("getitem", key, NoValue, ret,
                              IF key \in DOMAIN plain THEN Ok(plain[key]) ELSE KeyError)
    /\ reload' = [stage |-> "none", keys |-> {}]
    /\ UNCHANGED <<_keys, available_memory, _explicitly_given_path,
                   _key_to_filename, alive, direxists, keyfile, plain, written, observe>>

\* Chest.__delitem__(key)
DelItem ==
    /\ alive
    /\ \E key \in Keys :
          LET st1 == delitem_body([inmem |-> inmem, files |-> files], key)
          IN  /\ inmem' = st1.inmem
              /\ files' = st1.files
              /\ _keys' = _keys \ {key}
              /\ plain' = DictDel(plain, key)
              /\ written' = IF key \in _keys THEN DictDel(written, key) ELSE written
              /\ last' = Call("delitem", key, NoValue,
                              IF key \in _keys THEN Ok(NoValue) ELSE KeyError,
                              IF key \in DOMAIN plain THEN Ok(NoValue) ELSE KeyError)
    /\ reload' = [stage |-> "none", keys |-> {}]
    /\ UNCHANGED <<available_memory, _explicitly_given_path, _key_to_filename,
                   alive, direxists, keyfile, observe>>

\* Chest.shrink()
Shrink ==
    /\ alive
    /\ \E st1 \in shrink([inmem |-> inmem, files |-> files]) :
          /\ inmem' = st1.inmem
          /\ files' = st1.files
    /\ last' = Call("shrink", NoKey, NoValue, Ok(NoValue), Ok(NoValue))
    /\ reload' = [stage |-> "none", keys |-> {}]
    /\ UNCHANGED <<_keys, available_memory, _explicitly_given_path,
                   _key_to_filename, alive, direxists, keyfile, plain, written, observe>>

\* the for loop of flush iterating self.inmem itself: it stops after the first del
flush_loop_first(st, order) ==
    IF order = <<>> THEN st ELSE move_to_disk(st, Head(order))

\* the for loop of Chest.flush over list(self.inmem), in the order given
RECURSIVE flush_loop(_, _)
flush_loop(st, order) ==
    IF order = <<>> THEN st
    ELSE flush_loop(move_to_disk(st, Head(order)), Tail(order))

\* the states the for loop of Chest.flush can end in, from st = [inmem, files]
flush_outcomes(st) == { flush_loop(st, order) : order \in Perms(DOMAIN st.inmem) }

\* write_keys adding to '.keys' instead of replacing it
write_keys_merge == [exists |-> TRUE, keys |-> keyfile.keys \cup _keys]

\* Chest.write_keys: the content of '.keys' afterwards
write_keys == [exists |-> TRUE, keys |-> _keys]

\* Chest.flush()
Flush ==
    /\ alive
    /\ \E st1 \in flush_outcomes([inmem |-> inmem, files |-> files]) :
          /\ inmem' = st1.inmem
          /\ files' = st1.files
    /\ keyfile' = write_keys
    /\ last' = Call("flush", NoKey, NoValue, Ok(NoValue), Ok(NoValue))
    /\ reload' = [stage |-> "flushed", keys |-> _keys]
    /\ UNCHANGED <<_keys, available_memory, _explicitly_given_path,
                   _key_to_filename, alive, direxists, plain, written, observe>>

\* the for loop of Chest.flush when one of its move_to_disk calls raises
RECURSIVE flush_loop_raises(_, _)
flush_loop_raises(st, order) ==
    IF order = <<>> THEN {}
    ELSE { [st |-> s, key |-> Head(order), value |-> st.inmem[Head(order)]] :
               s \in move_to_disk_raises(st, Head(order)) }
         \cup flush_loop_raises(move_to_disk(st, Head(order)), Tail(order))

\* Chest.flush on st = [inmem, files] when a move_to_disk raises
flush_raises(st) == UNION { flush_loop_raises(st, order) : order \in Perms(DOMAIN st.inmem) }

\* Chest.__setitem__(key, value) ended by a move_to_disk that raises in shrink
SetItemRaises ==
    /\ alive
    /\ \E key \in Keys, value \in Values :
          LET st0 == [inmem |-> inmem, files |-> files]
              st1 == IF key \in _keys THEN delitem_body(st0, key) ELSE st0
              st2 == [st1 EXCEPT !.inmem = DictSet(st1.inmem, key, value)]
          IN  \E o \in shrink_raises(st2) :
                  /\ inmem' = o.st.inmem
                  /\ files' = o.st.files
                  /\ _keys' = _keys \cup {key}
                  /\ last' = Raised("setitem", o.key, o.value, _keys \cup {key})
    /\ reload' = [stage |-> "none", keys |-> {}]
    /\ UNCHANGED <<available_memory, _explicitly_given_path, _key_to_filename,
                   alive, direxists, keyfile, observe, plain, written>>

\* Chest.__getitem__(key) ended by a move_to_disk that raises in shrink
GetItemRaises ==
    /\ alive
    /\ \E key \in Keys :
          /\ key \notin DOMAIN inmem
          /\ getitem_result(key).kind = "ok"
          /\ \E o \in shrink_raises(get_from_disk([inmem |-> inmem, files |-> files], key)) :
                  /\ inmem' = o.st.inmem
                  /\ files' = o.st.files
                  /\ last' = Raised("getitem", o.key, o.value, _keys)
    /\ reload' = [stage |-> "none", keys |-> {}]
    /\ UNCHANGED <<_keys, available_memory, _explicitly_given_path,
                   _key_to_filename, alive, direxists, keyfile, plain, written, observe>>

\* Chest.shrink() ended by a move_to_disk that raises
ShrinkRaises ==
    /\ alive
    /\ \E o \in shrink_raises([inmem |-> inmem, files |-> files]) :
          /\ inmem' = o.st.inmem
          /\ files' = o.st.files
          /\ last' = Raised("shrink", o.key, o.value, _keys)
    /\ reload' = [stage |-> "none", keys |-> {}]
    /\ UNCHANGED <<_keys, available_memory, _explicitly_given_path,
                   _key_to_filename, alive, direxists, keyfile, plain, written, observe>>

\* Chest.flush() ended by a move_to_disk that raises: write_keys is not reached
FlushRaises ==
    /\ alive
    /\ \E o \in flush_raises([inmem |-> inmem, files |-> files]) :
          /\ inmem' = o.st.inmem
          /\ files' = o.st.files
          /\ last' = Raised("flush", o.key, o.value, _keys)
    /\ reload' = [stage |-> "none", keys |-> {}]
    /\ UNCHANGED <<_keys, available_memory, _explicitly_given_path,
                   _key_to_filename, alive, direxists, keyfile, plain, written, observe>>

\* drop without the rmtree: the directory stays
drop_keep == UNCHANGED <<direxists, files, keyfile>>

\* Chest.drop: shutil.rmtree(self.path)
drop == /\ direxists' = FALSE
        /\ files' = [n \in {} |-> NoValue]
        /\ keyfile' = NoKeyfile

\* Chest.__del__: the object is discarded
Del ==
    /\ alive
    /\ IF ~_explicitly_given_path /\ direxists
       THEN drop
       ELSE UNCHANGED <<direxists, files, keyfile>>
    /\ alive' = FALSE
    /\ inmem' = EmptyDict
    /\ _keys' = {}
    /\ plain' = EmptyDict
    /\ last' = Call("del", NoKey, NoValue, Ok(NoValue), Ok(NoValue))
    /\ reload' = IF reload.stage = "flushed" /\ _explicitly_given_path
                 THEN [reload EXCEPT !.stage = "discarded"]
                 ELSE [stage |-> "none", keys |-> {}]
    /\ UNCHANGED <<available_memory, _explicitly_given_path, _key_to_filename,
                   written, observe>>

Next == Reopen \/ SetItem \/ GetItem \/ DelItem \/ Shrink \/ Flush \/ Del

Spec == Init /\ [][Next]_vars

SpecWrites == InitWrites /\ [][Next]_vars

\* the calls of Next, each of which can also end in a move_to_disk that raises
NextRaises ==
    \/ Reopen \/ SetItem \/ GetItem \/ DelItem \/ Shrink \/ Flush \/ Del
    \/ SetItemRaises \/ GetItemRaises \/ ShrinkRaises \/ FlushRaises

SpecRaises == InitRaises /\ [][NextRaises]_vars

-----------------------------------------------------------------------------
(* Properties *)

\* the key -> file name function of the Chest gives distinct keys distinct files
Injective ==
    \A k1, k2 \in Keys :
        Chest_key_to_filename(k1) = Chest_key_to_filename(k2) => k1 = k2

\* the keys that are on disk only: a file exists and the key is not in memory
OnDiskOnly ==
    { k \in Keys : Chest_key_to_filename(k) \in DOMAIN files /\ k \notin DOMAIN inmem }

\* C1: with an injective key -> file name function, every call returns what a
\* plain dict seeded with the same data returns for the same calls, and
\* __contains__, __len__ and iteration agree with that dict.
C1_PlainDictEquivalence ==
    (alive /\ Injective) =>
        /\ last.ret = last.ref
        /\ \A k \in Keys : Contains(k) <=> k \in DOMAIN plain
        /\ Length = Cardinality(DOMAIN plain)
        /\ Iter = DOMAIN plain

\* C2: a read of key that directly follows a write of value to key returns value.
C2_RoundTrip ==
    (last.op = "getitem" /\ last.after # NoValue) => last.ret = Ok(last.after)

\* C2, amended: with an injective key -> file name function, a read of key that
\* directly follows a write of value to key returns value.
C2_RoundTripInjective == Injective => C2_RoundTrip

\* a read returned a value larger than available_memory right after its write,
\* and the value is on disk again after the read
C2_Witness ==
    /\ Injective
    /\ last.op = "getitem" /\ last.after # NoValue
    /\ nbytes(last.after) > available_memory
    /\ last.ret = Ok(last.after)
    /\ last.key \notin DOMAIN inmem
    /\ FileOf(last.key) = last.after

\* C3: after a write or a read has returned, memory_usage is below
\* available_memory or nothing is left in memory.
C3_EvictionConvergence ==
    (last.op \in {"setitem", "getitem"} /\ last.ret.kind = "ok") =>
        (memory_usage(inmem) < available_memory \/ DOMAIN inmem = {})

\* C4: the keys iteration yields are the keys in memory together with the keys
\* that are on disk only.
C4_SetEquivalence == alive => Iter = DOMAIN inmem \cup OnDiskOnly

\* C5: every key of inmem is in _keys, is reported by __contains__ and is
\* counted by __len__.
C5_InmemKeysTracked ==
    alive => /\ \A k \in DOMAIN inmem : Contains(k)
             /\ Length >= Cardinality(DOMAIN inmem)

\* C6: a Chest re-opened, without data, on the path of a Chest that was flushed
\* and then discarded has the key set of the old one at the flush, and reads,
\* for each of these keys, the value last written to it.
C6_Persistence ==
    (reload.stage = "reloaded" /\ Injective) =>
        /\ Length = Cardinality(reload.keys)
        /\ Iter = reload.keys
        /\ \A k \in reload.keys :
              k \in DOMAIN written /\ getitem_result(k) = Ok(written[k])

\* C7: after flush nothing is left in memory, whatever available_memory is, and
\* a flush of that state leaves the value files and '.keys' as they are.
C7_FlushIdempotent ==
    last.op = "flush" =>
        /\ DOMAIN inmem = {}
        /\ \A st \in flush_outcomes([inmem |-> inmem, files |-> files]) :
              st.files = files
        /\ write_keys = keyfile

\* a flush moved a value that fits in available_memory to its file and wrote '.keys'
C7_Witness ==
    /\ last.op = "flush"
    /\ keyfile.exists /\ keyfile.keys # {}
    /\ \E k \in _keys :
          FileOf(k) # NoValue /\ nbytes(FileOf(k)) < available_memory

\* C8: after a write of value to a key of _keys whose file existed, the file of
\* the key is gone or holds value, and a read of the key does not return the
\* old content of the file.
C8_OverwriteSafety ==
    (last.op = "setitem" /\ last.haskey /\ last.oldfile # NoValue) =>
        /\ FileOf(last.key) \in {NoValue, last.value}
        /\ last.oldfile # last.value => getitem_result(last.key) # Ok(last.oldfile)

\* C8, amended: with an injective key -> file name function, after a write of
\* value to a key of _keys whose file existed, the file of the key is gone or
\* holds value, and a read of the key does not return the old content.
C8_OverwriteSafetyInjective == Injective => C8_OverwriteSafety

\* a key of _keys with a file was overwritten by another value, which was spilled
C8_Witness ==
    /\ Injective
    /\ last.op = "setitem" /\ last.haskey
    /\ last.oldfile # NoValue /\ last.oldfile # last.value
    /\ FileOf(last.key) = last.value

\* C9: after a write of a value larger than available_memory the key is not in
\* memory, is in _keys, its file holds the value and a read returns the value.
C9_BudgetSpill ==
    /\ (last.op = "setitem" /\ nbytes(last.value) > available_memory) =>
          /\ last.key \notin DOMAIN inmem
          /\ Contains(last.key)
          /\ FileOf(last.key) = last.value
          /\ getitem_result(last.key) = Ok(last.value)
    /\ (last.op = "getitem" /\ nbytes(last.after) > available_memory) =>
          last.ret = Ok(last.after)

\* C9, amended: with an injective key -> file name function, after a write of a
\* value larger than available_memory the key is not in memory, is in _keys,
\* its file holds the value and a read returns the value.
C9_BudgetSpillInjective == Injective => C9_BudgetSpill

\* a value larger than available_memory was written next to a smaller one
\* that stayed in memory
C9_Witness ==
    /\ Injective
    /\ last.op = "setitem" /\ nbytes(last.value) > available_memory
    /\ FileOf(last.key) = last.value
    /\ DOMAIN inmem # {}

\* C10: a read or a delete of a key that is not in _keys raises KeyError.
C10_MissingKey ==
    (last.op \in {"getitem", "delitem"} /\ ~last.haskey) => last.ret = KeyError

\* C11: when a move_to_disk(key) raises during shrink or flush, key is still in
\* inmem with the value it had, key is still in _keys if it was, and the file of
\* key is as it was or truncated; a move_to_disk that removes key from inmem has
\* written its value to the file of key.
C11_NoLossOnFailedSpill ==
    /\ last.ret = IOError =>
          /\ last.key \in DOMAIN inmem
          /\ inmem[last.key] = last.value
          /\ last.haskey => last.key \in _keys
    /\ alive =>
          \A key \in DOMAIN inmem :
              LET st == [inmem |-> inmem, files |-> files]
              IN  \A s \in {move_to_disk(st, key)} \cup move_to_disk_raises(st, key) :
                      key \notin DOMAIN s.inmem =>
                          s.files[Chest_key_to_filename(key)] = inmem[key]

\* a flush raised at the second key it moved: the first is on disk, the second
\* is in memory, in _keys, and its file is truncated
C11_Witness ==
    /\ last.op = "flush" /\ last.ret = IOError
    /\ last.key \in _keys
    /\ FileOf(last.key) = Truncated
    /\ inmem[last.key] = last.value
    /\ \E k \in _keys \ {last.key} : k \notin DOMAIN inmem /\ FileOf(k) \in Values

\* C12: discarding a Chest removes its directory if and only if the path was
\* not given by the caller; discarding a Chest with a given path leaves the
\* directory, its value files and '.keys' as they are.
C12_ImplicitTeardown ==
    [][ (alive /\ ~alive') =>
            /\ (direxists /\ ~direxists') <=> ~_explicitly_given_path
            /\ _explicitly_given_path =>
                  /\ direxists' = direxists
                  /\ files' = files
                  /\ keyfile' = keyfile ]_vars

\* a Chest with a given path was discarded after a flush: the directory, a value
\* file and '.keys' are there
C12_Witness ==
    /\ last.op = "del"
    /\ _explicitly_given_path
    /\ direxists /\ keyfile.exists /\ DOMAIN files # {}

\* the dict a call hands to shrink: inmem, with the value of a write in
\* progress or the value a read loaded from disk
ShrinkInputs ==
    {inmem}
    \cup { DictSet(inmem, key, value) : key \in Keys, value \in Values }
    \cup { DictSet(inmem, key, FileOf(key)) :
               key \in { k \in _keys \ DOMAIN inmem : FileOf(k) \in Values } }

\* the keys of d without the first n keys of pops
StillInMemory(d, pops, n) == DOMAIN d \ { pops[j] : j \in 1..n }

\* C13: in one shrink, every key is spilled when its size is at least the size
\* of every value still in memory, so the sizes spilled do not increase; the
\* keys a shrink call removed from memory are as large as every key it left.
C13_LargestFirst ==
    /\ [](alive =>
            \A d \in ShrinkInputs : \A order \in sorted_items(d) :
                LET pops == shrink_pops(d, order, memory_usage(d))
                    st == shrink_loop([inmem |-> d, files |-> files], order,
                                      memory_usage(d))
                IN  /\ { pops[i] : i \in 1..Len(pops) } = DOMAIN d \ DOMAIN st.inmem
                    /\ \A i \in 1..Len(pops) :
                          \A k \in StillInMemory(d, pops, i - 1) :
                              nbytes(d[pops[i]]) >= nbytes(d[k])
                    /\ \A i, j \in 1..Len(pops) :
                          i < j => nbytes(d[pops[i]]) >= nbytes(d[pops[j]]))
    /\ [][ (last'.op \in {"shrink", "setitem", "getitem"} /\ last'.ret.kind = "ok") =>
              LET d == IF last'.op = "setitem"
                       THEN DictSet(inmem, last'.key, last'.value)
                       ELSE IF last'.op = "getitem"
                       THEN DictSet(inmem, last'.key, last'.ret.val)
                       ELSE inmem
              IN  \A k \in DOMAIN d \ DOMAIN inmem' : \A k2 \in DOMAIN inmem' :
                      nbytes(d[k]) >= nbytes(inmem'[k2]) ]_vars

\* the shrink of a write spilled the larger of two values and left the smaller
\* one in memory
C13_Witness ==
    /\ last.op = "setitem" /\ Injective
    /\ \E k \in DOMAIN inmem, k2 \in _keys \ DOMAIN inmem :
          /\ FileOf(k2) \in Values
          /\ nbytes(FileOf(k2)) > nbytes(inmem[k])
          /\ nbytes(FileOf(k2)) + nbytes(inmem[k]) > available_memory
          /\ last.key \in {k, k2}

\* C14: a shrink() called with memory_usage below available_memory leaves
\* inmem, the value files and _keys as they are; and in any shrink no key is
\* popped when the values still in memory are already below available_memory.
C14_NoOverEviction ==
    /\ [](alive =>
            \A d \in ShrinkInputs :
                LET st0 == [inmem |-> d, files |-> files]
                IN  /\ memory_usage(d) < available_memory => shrink(st0) = {st0}
                    /\ \A order \in sorted_items(d) :
                          LET pops == shrink_pops(d, order, memory_usage(d))
                          IN  \A i \in 1..Len(pops) :
                                  memory_usage([k \in StillInMemory(d, pops, i - 1) |-> d[k]])
                                      >= available_memory
                    /\ \A st \in shrink(st0) : \A k \in DOMAIN d \ DOMAIN st.inmem :
                          memory_usage(st.inmem) + nbytes(d[k]) >= available_memory)
    /\ [][ (last'.op = "shrink" /\ memory_usage(inmem) < available_memory) =>
              (inmem' = inmem /\ files' = files /\ _keys' = _keys) ]_vars

\* a shrink() found a value in memory below available_memory and left it,
\* after an earlier shrink had spilled a larger value
C14_Witness ==
    /\ last.op = "shrink"
    /\ DOMAIN inmem # {}
    /\ memory_usage(inmem) < available_memory
    /\ available_memory <= MaxBudget
    /\ \E k \in _keys \ DOMAIN inmem :
          FileOf(k) \in Values /\ nbytes(FileOf(k)) >= available_memory

\* C15: a read of a key that is in inmem returns its value and leaves inmem,
\* _keys, every value file and '.keys' as they are; no read changes _keys.
C15_ResidentRead ==
    [][ last'.op = "getitem" =>
            /\ _keys' = _keys
            /\ last'.key \in DOMAIN inmem =>
                  /\ last'.ret = Ok(inmem[last'.key])
                  /\ inmem' = inmem
                  /\ files' = files
                  /\ keyfile' = keyfile ]_vars

\* a read returned a value that is in memory, above available_memory, and the
\* value is still in memory
C15_Witness ==
    /\ last.op = "getitem"
    /\ last.key \in DOMAIN inmem
    /\ last.ret = Ok(inmem[last.key])
    /\ memory_usage(inmem) > available_memory

\* C16: a delete of a key of _keys ends with the key out of _keys, out of inmem
\* and without a file, and a read of it raises KeyError; with an injective
\* key -> file name function, the membership, the value in memory and the file
\* of every other key are as before.
C16_Delete ==
    [][ \A key \in Keys :
          (last'.op = "delitem" /\ last'.key = key /\ last'.haskey) =>
                /\ last'.ret = Ok(NoValue)
                /\ key \notin _keys'
                /\ key \notin DOMAIN inmem'
                /\ Chest_key_to_filename(key) \notin DOMAIN files'
                /\ getitem_result(key)' = KeyError
                /\ Injective =>
                      \A k \in Keys \ {key} :
                          /\ k \in _keys' <=> k \in _keys
                          /\ k \in DOMAIN inmem' <=> k \in DOMAIN inmem
                          /\ k \in DOMAIN inmem => inmem'[k] = inmem[k]
                          /\ FileOf(k)' = FileOf(k) ]_vars

\* a key of _keys that had a file was deleted, and another key of _keys still
\* has its file
C16_Witness ==
    /\ last.op = "delitem" /\ last.haskey
    /\ last.oldfile # NoValue
    /\ Injective
    /\ last.key \notin _keys
    /\ \E k \in _keys : FileOf(k) \in Values

\* C17: with an injective key -> file name function, every key of _keys has a
\* value in inmem or in its file, so a read of it does not fail, in every state
\* reached by writes, reads, deletes, flushes, discards and re-opens.
C17_KeysHaveValues ==
    (alive /\ Injective) =>
        \A k \in _keys :
            /\ k \in DOMAIN inmem \/ Chest_key_to_filename(k) \in DOMAIN files
            /\ getitem_result(k).kind = "ok"

\* C18: the default key_to_filename gives no key the name of '.keys'; a write,
\* a read, a delete and a shrink leave '.keys' as it is; and after a flush
\* '.keys' holds exactly _keys, whatever it held before.
C18_ManifestOnlyByFlush ==
    /\ [](\A key \in Keys \cup { StrKey(str) : str \in Strings }
                       \cup { IntKey(n) : n \in StrHashes } :
              KeysFile \notin default_filenames(key))
    /\ [][ (last'.op \in {"setitem", "getitem", "delitem", "shrink"} =>
                keyfile' = keyfile)
           /\ (last'.op = "flush" =>
                (keyfile'.exists /\ keyfile'.keys = _keys /\ _keys' = _keys)) ]_vars

\* a flush wrote the keys of _keys to '.keys' while the directory also holds
\* the file of a key that is not in _keys
C18_Witness ==
    /\ last.op = "flush"
    /\ keyfile = [exists |-> TRUE, keys |-> _keys]
    /\ \E k \in Keys : k \notin _keys /\ FileOf(k) \in Values
    /\ _keys # {}

\* C19: with an injective key -> file name function, a delete that raises
\* KeyError leaves inmem, every value file and _keys as they were.
C19_FailedDeleteNoChange ==
    [][ (Injective /\ last'.op = "delitem" /\ last'.ret = KeyError) =>
            (inmem' = inmem /\ files' = files /\ _keys' = _keys) ]_vars

\* C20: when two keys have the same file name, the first is in _keys and on
\* disk only, and a write of the second spills it, the write returns without an
\* error, the shared file holds the second value, and a read of the first key,
\* which loads the file, returns the second value.
C20_SilentCollision ==
    [][ \A k1, k2 \in Keys :
          /\ (/\ k1 # k2
               /\ Chest_key_to_filename(k1) = Chest_key_to_filename(k2)
               /\ k1 \in _keys /\ k1 \notin DOMAIN inmem /\ FileOf(k1) \in Values
               /\ last'.op = "setitem" /\ last'.key = k2
               /\ k2 \notin DOMAIN inmem')
              => /\ last'.ret = Ok(NoValue)
                 /\ k1 \in _keys' /\ k2 \in _keys'
                 /\ FileOf(k1)' = last'.value
                 /\ getitem_result(k1)' = Ok(last'.value)
          /\ (last'.op = "getitem" /\ last'.key = k1)
              => last'.ret = getitem_result(k1) ]_vars

\* a read of a key loaded the file it shares with another key of _keys and
\* returned a value that a plain dict does not hold for it
C20_Witness ==
    /\ last.op = "getitem" /\ last.haskey
    /\ \E k2 \in _keys \ {last.key} :
          Chest_key_to_filename(k2) = Chest_key_to_filename(last.key)
    /\ last.oldfile \in Values
    /\ last.ret = Ok(last.oldfile)
    /\ last.ref.kind = "ok" /\ last.ret # last.ref

====
